---- MODULE Spec2Model ----
(***************************************************************************)
(* Model of src/src/nodeset.rs: the Node tagged union over the entities    *)
(* of a dom4 document, the Nodeset collection, the document-order walk of  *)
(* Nodeset::document_order_first, Node::string_value and                   *)
(* Node::prefixed_name.                                                    *)
(*                                                                         *)
(* The document itself (child lists, attribute lists, prefix               *)
(* registrations) belongs to the dom4 collaborator; its state is carried   *)
(* in the variables childList, attrList, prefixes and preferred and is     *)
(* changed only by the collaborator's operations append_child,             *)
(* set_attribute_value, register_prefix and set_preferred_prefix.          *)
(***************************************************************************)
EXTENDS Integers, Sequences, FiniteSets, TLC

VARIABLES
    childList,  \* dom4: ordered child list of the root and of every element
    attrList,   \* dom4: ordered attribute list of every element (e.attributes())
    prefixes,   \* dom4: prefix -> namespace URI registrations of every element
    preferred,  \* dom4: preferred prefix of every element and attribute
    nodesets,   \* the Nodeset values of the program, by variable name
    appended,   \* history: per Nodeset, the nodes appended to it so far
    ret,        \* the last call and what it returned
    walk,       \* document_order_first in progress: where it is, and idx, stack, order
    visited     \* history: the nodes popped by the walk in progress, in order

vars == <<childList, attrList, prefixes, preferred, nodesets, appended, ret, walk, visited>>

(***************************************************************************)
(* Bounds of the model.                                                    *)
(***************************************************************************)
MaxSetLen == 2   \* longest Nodeset handed to document_order_first
MaxTotal == 5    \* most members held by the three Nodesets of SpecSet together
MaxMembers == 4  \* most members held by the two Nodesets of SpecMembers together
MaxAttached == 4 \* most nodes put into child lists in SpecValue

(***************************************************************************)
(* The entities of the one document, by dom4 type.                         *)
(***************************************************************************)
RootE == "r"
ElementE == {"e1", "e2"}
AttributeE == {"a1", "a2"}
TextE == {"t1", "t2", "t3"}
CommentE == {"c1"}
PIE == {"p1", "p2"}
NamespaceE == {"n1"}
ParentE == {RootE} \cup ElementE
EntityE == ParentE \cup AttributeE \cup TextE \cup CommentE \cup PIE \cup NamespaceE

EntityType(x) ==
    CASE x = RootE -> "Root"
      [] x \in ElementE -> "Element"
      [] x \in AttributeE -> "Attribute"
      [] x \in TextE -> "Text"
      [] x \in CommentE -> "Comment"
      [] x \in PIE -> "ProcessingInstruction"
      [] x \in NamespaceE -> "Namespace"

(***************************************************************************)
(* Option and panic values.                                                *)
(***************************************************************************)
None == <<>>
Some(x) == <<x>>
Panic(msg) == <<"panic", msg>>
IsSome(v) == Len(v) = 1
IsPanic(v) == Len(v) = 2

(***************************************************************************)
(* enum Node and the conversions into it.  A Node is <<variant, entity>>.  *)
(***************************************************************************)
From(x) ==
    CASE EntityType(x) = "Root" -> <<"Root", x>>
      [] EntityType(x) = "Element" -> <<"Element", x>>
      [] EntityType(x) = "Attribute" -> <<"Attribute", x>>
      [] EntityType(x) = "Text" -> <<"Text", x>>
      [] EntityType(x) = "Comment" -> <<"Comment", x>>
      [] EntityType(x) = "ProcessingInstruction" -> <<"ProcessingInstruction", x>>

\* Node::Namespace(ns) is built directly from the struct (no From impl).
NamespaceNode(x) == <<"Namespace", x>>

\* dom4::ChildOfRoot -> Node
ChildOfRootTypes == {"Element", "Comment", "ProcessingInstruction"}
ChildOfRootInto(x) ==
    CASE EntityType(x) = "Element" -> <<"Element", x>>
      [] EntityType(x) = "Comment" -> <<"Comment", x>>
      [] EntityType(x) = "ProcessingInstruction" -> <<"ProcessingInstruction", x>>

\* dom4::ChildOfElement -> Node
ChildOfElementTypes == {"Element", "Text", "Comment", "ProcessingInstruction"}
ChildOfElementInto(x) ==
    CASE EntityType(x) = "Element" -> <<"Element", x>>
      [] EntityType(x) = "Text" -> <<"Text", x>>
      [] EntityType(x) = "Comment" -> <<"Comment", x>>
      [] EntityType(x) = "ProcessingInstruction" -> <<"ProcessingInstruction", x>>

NodeOf(x) == IF x \in NamespaceE THEN NamespaceNode(x) ELSE From(x)

(***************************************************************************)
(* Sequence helpers.                                                       *)
(***************************************************************************)
Range(s) == {s[i] : i \in DOMAIN s}
Reverse(s) == [i \in 1..Len(s) |-> s[Len(s) + 1 - i]]

(***************************************************************************)
(* Node::children                                                          *)
(***************************************************************************)
children(n) ==
    CASE n[1] = "Root" ->
           [i \in 1..Len(childList[n[2]]) |-> ChildOfRootInto(childList[n[2]][i])]
      [] n[1] = "Element" ->
           [i \in 1..Len(childList[n[2]]) |-> ChildOfElementInto(childList[n[2]][i])]
      [] OTHER -> <<>>

\* e.attributes().into_iter().map(|a| a.into())
attributes(e) == [i \in 1..Len(attrList[e]) |-> From(attrList[e][i])]

(***************************************************************************)
(* Nodeset::document_order_first                                           *)
(***************************************************************************)
\* let mut idx = 0; let mut stack = vec![doc.root().into()]; order = HashMap::new()
WalkInit == [stack |-> <<From(RootE)>>, idx |-> 0, order |-> [x \in {} |-> 0]]

\* WalkStep with the children pushed in child-list order (the `.rev()` dropped)
WalkStep_ChildrenNotReversed(st) ==
    LET n == st.stack[Len(st.stack)]
        popped == SubSeq(st.stack, 1, Len(st.stack) - 1)
        c == children(n)
        withChildren == popped \o c
    IN  [stack |-> IF n[1] = "Element"
                     THEN withChildren \o attributes(n[2])
                     ELSE withChildren,
         idx |-> st.idx + 1,
         order |-> (n :> st.idx) @@ st.order]

\* WalkStep with the attributes pushed before the children
WalkStep_AttributesBelowChildren(st) ==
    LET n == st.stack[Len(st.stack)]
        popped == SubSeq(st.stack, 1, Len(st.stack) - 1)
        c == children(n)
        withAttributes == IF n[1] = "Element"
                            THEN popped \o attributes(n[2])
                            ELSE popped
    IN  [stack |-> withAttributes \o Reverse(c),
         idx |-> st.idx + 1,
         order |-> (n :> st.idx) @@ st.order]

\* WalkStep without the attributes (the `if let Node::Element(e)` dropped)
WalkStep_NoAttributes(st) ==
    LET n == st.stack[Len(st.stack)]
        popped == SubSeq(st.stack, 1, Len(st.stack) - 1)
        c == children(n)
    IN  [stack |-> popped \o Reverse(c),
         idx |-> st.idx + 1,
         order |-> (n :> st.idx) @@ st.order]

\* one iteration of `while let Some(n) = stack.pop()`
WalkStep(st) ==
    LET n == st.stack[Len(st.stack)]
        popped == SubSeq(st.stack, 1, Len(st.stack) - 1)
        c == children(n)
        withChildren == popped \o Reverse(c)
    IN  [stack |-> IF n[1] = "Element"
                     THEN withChildren \o attributes(n[2])
                     ELSE withChildren,
         idx |-> st.idx + 1,
         order |-> (n :> st.idx) @@ st.order]

RECURSIVE Walk(_)
Walk(st) == IF st.stack = <<>> THEN st ELSE Walk(WalkStep(st))

\* Iterator::min_by(|&n| order[n]): a fold keeping the first least key;
\* order[n] on a node the walk did not reach panics (HashMap index).
RECURSIVE MinByFold(_, _, _, _)
MinByFold(nodes, order, i, min) ==
    IF i > Len(nodes) THEN min
    ELSE IF nodes[i] \notin DOMAIN order THEN Panic("key not found")
    ELSE IF min = None THEN MinByFold(nodes, order, i + 1, Some(nodes[i]))
    ELSE IF order[nodes[i]] < order[min[1]]
           THEN MinByFold(nodes, order, i + 1, Some(nodes[i]))
           ELSE MinByFold(nodes, order, i + 1, min)

min_by(nodes, order) == MinByFold(nodes, order, 1, None)

document_order_first(nodes) ==
    IF nodes = <<>> THEN None
    ELSE min_by(nodes, Walk(WalkInit).order)

(***************************************************************************)
(* What the dom4 entities of the document hold.                            *)
(***************************************************************************)
QName(uri, local) == [namespace_uri |-> uri, local_part |-> local]

\* Element::name, Attribute::name
name(x) ==
    CASE x = "e1" -> QName(Some("uri"), "wow")
      [] x = "e2" -> QName(None, "element")
      [] x = "a1" -> QName(Some("uri"), "attr")
      [] x = "a2" -> QName(None, "name")

\* Attribute::value
value(x) == CASE x = "a1" -> "value" [] x = "a2" -> "Earth"

\* Text::text, Comment::text
text(x) ==
    CASE x = "t1" -> "Presenting: "
      [] x = "t2" -> "Earth"
      [] x = "t3" -> "!"
      [] x = "c1" -> "hello world"

\* ProcessingInstruction::target, ProcessingInstruction::value
target(x) == CASE x = "p1" -> "hello" [] x = "p2" -> "target"
pi_value(x) == CASE x = "p1" -> None [] x = "p2" -> Some("world")

\* the Namespace struct's fields
ns_prefix(x) == "prefix"
ns_uri(x) == "uri"

unwrap_or(opt, default) == IF opt = None THEN default ELSE opt[1]

(***************************************************************************)
(* Node::string_value                                                      *)
(***************************************************************************)
\* document_order_text_nodes taking only the Text children of the node itself
RECURSIVE TextChildrenOnly(_, _, _)
TextChildrenOnly(c, i, result) ==
    IF i > Len(c) THEN result
    ELSE TextChildrenOnly(c, i + 1,
            IF c[i][1] = "Text" THEN result \o text(c[i][2]) ELSE result)
document_order_text_nodes_NoRecursion(node, result) ==
    TextChildrenOnly(children(node), 1, result)

RECURSIVE document_order_text_nodes(_, _)
RECURSIVE ForEachChild(_, _, _)
\* fn document_order_text_nodes(node, result): for child in node.children().iter()
document_order_text_nodes(node, result) == ForEachChild(children(node), 1, result)
\* the loop body, from child i on
ForEachChild(c, i, result) ==
    IF i > Len(c) THEN result
    ELSE ForEachChild(c, i + 1,
            CASE c[i][1] = "Element" -> document_order_text_nodes(c[i], result)
              [] c[i][1] = "Text" -> result \o text(c[i][2])
              [] OTHER -> result)

text_descendants_string_value(node) == document_order_text_nodes(node, "")

\* string_value giving a processing instruction without value its target
string_value_PiTarget(n) ==
    CASE n[1] = "Root" -> text_descendants_string_value(n)
      [] n[1] = "Element" -> text_descendants_string_value(n)
      [] n[1] = "Attribute" -> value(n[2])
      [] n[1] = "ProcessingInstruction" -> unwrap_or(pi_value(n[2]), target(n[2]))
      [] n[1] = "Comment" -> text(n[2])
      [] n[1] = "Text" -> text(n[2])
      [] n[1] = "Namespace" -> ns_uri(n[2])

string_value(n) ==
    CASE n[1] = "Root" -> text_descendants_string_value(n)
      [] n[1] = "Element" -> text_descendants_string_value(n)
      [] n[1] = "Attribute" -> value(n[2])
      [] n[1] = "ProcessingInstruction" -> unwrap_or(pi_value(n[2]), "")
      [] n[1] = "Comment" -> text(n[2])
      [] n[1] = "Text" -> text(n[2])
      [] n[1] = "Namespace" -> ns_uri(n[2])

(***************************************************************************)
(* Node::prefixed_name                                                     *)
(***************************************************************************)
Prefixes == {"prefix", "other"}
Uris == {"uri", "uri2"}
\* the orders in which the element's registrations may be scanned
ScanOrders == {<<"prefix", "other">>, <<"other", "prefix">>}

\* dom4 Element::prefix_for_namespace_uri(ns_uri, preferred_prefix): the
\* preferred prefix if it is registered for the URI at the element, else
\* the first registered prefix found for the URI, else None
prefix_for_namespace_uri(element, uri, preferred_prefix, scan) ==
    LET bound == {q \in Prefixes : <<q, uri>> \in prefixes[element]}
    IN  IF preferred_prefix # None /\ preferred_prefix[1] \in bound THEN preferred_prefix
        ELSE IF bound = {} THEN None
        ELSE Some(scan[CHOOSE i \in 1..Len(scan) :
                         scan[i] \in bound /\ \A j \in 1..(i - 1) : scan[j] \notin bound])

\* dom4 Attribute::parent
attribute_parent(a) ==
    IF \E e \in ElementE : a \in Range(attrList[e])
      THEN Some(CHOOSE e \in ElementE : a \in Range(attrList[e]))
      ELSE None

\* qname_prefixed_name formatting "{}:{}" also when no prefix was found
qname_prefixed_name_EmptyPrefix(element, qname, preferred_prefix, scan) ==
    IF qname.namespace_uri # None
      THEN LET found == prefix_for_namespace_uri(element, qname.namespace_uri[1],
                                                 preferred_prefix, scan)
           IN  unwrap_or(found, "") \o ":" \o qname.local_part
      ELSE qname.local_part

\* fn qname_prefixed_name(element, name, preferred_prefix) -> String
qname_prefixed_name(element, qname, preferred_prefix, scan) ==
    IF qname.namespace_uri # None
      THEN LET found == prefix_for_namespace_uri(element, qname.namespace_uri[1],
                                                 preferred_prefix, scan)
           IN  IF found # None
                 THEN found[1] \o ":" \o qname.local_part   \* format!("{}:{}", ..)
                 ELSE qname.local_part
      ELSE qname.local_part

\* prefixed_name resolving a parentless attribute to its bare local name
prefixed_name_NoExpect(n, scan) ==
    CASE n[1] = "Root" -> None
      [] n[1] = "Element" -> Some(qname_prefixed_name(n[2], name(n[2]), preferred[n[2]], scan))
      [] n[1] = "Attribute" ->
           IF attribute_parent(n[2]) = None
             THEN Some(name(n[2]).local_part)
             ELSE Some(qname_prefixed_name(attribute_parent(n[2])[1], name(n[2]),
                                           preferred[n[2]], scan))
      [] n[1] = "Text" -> None
      [] n[1] = "Comment" -> None
      [] n[1] = "ProcessingInstruction" -> Some(target(n[2]))
      [] n[1] = "Namespace" -> Some(ns_prefix(n[2]))

prefixed_name(n, scan) ==
    CASE n[1] = "Root" -> None
      [] n[1] = "Element" -> Some(qname_prefixed_name(n[2], name(n[2]), preferred[n[2]], scan))
      [] n[1] = "Attribute" ->
           IF attribute_parent(n[2]) = None
             THEN Panic("Cannot process attribute without parent")
             ELSE Some(qname_prefixed_name(attribute_parent(n[2])[1], name(n[2]),
                                           preferred[n[2]], scan))
      [] n[1] = "Text" -> None
      [] n[1] = "Comment" -> None
      [] n[1] = "ProcessingInstruction" -> Some(target(n[2]))
      [] n[1] = "Namespace" -> Some(ns_prefix(n[2]))

(***************************************************************************)
(* Nodeset::new, add, add_nodeset                                          *)
(***************************************************************************)
new == <<>>
\* add that keeps the Nodeset free of duplicates
add_IfAbsent(self, x) == IF NodeOf(x) \in Range(self) THEN self ELSE Append(self, NodeOf(x))

add(self, x) == Append(self, NodeOf(x))

\* add_nodeset treating the Nodeset as a mathematical set (members already
\* present are not appended again)
RECURSIVE add_nodeset_Dedup(_, _)
add_nodeset_Dedup(self, other) ==
    IF other = <<>> THEN self
    ELSE add_nodeset_Dedup(IF other[1] \in Range(self) THEN self ELSE Append(self, other[1]),
                           Tail(other))

add_nodeset(self, other) == self \o other
size(self) == Len(self)

(***************************************************************************)
(* Nodeset::iter, Iter and Iterator::next                                  *)
(***************************************************************************)
\* IntoIterator for &Nodeset: Iter { iter: self.nodes.iter() }
iter(self) == [slice |-> self, pos |-> 1]

\* Iter::next: self.iter.next().cloned()
IterNext(it) ==
    IF it.pos > Len(it.slice) THEN [item |-> None, it |-> it]
    ELSE [item |-> Some(it.slice[it.pos]), it |-> [it EXCEPT !.pos = @ + 1]]

\* nodes.iter().collect(): next until None
RECURSIVE Collect(_)
Collect(it) ==
    LET r == IterNext(it)
    IN  IF r.item = None THEN <<>> ELSE <<r.item[1]>> \o Collect(r.it)

SetNames == {"all_nodes", "nodes1", "nodes2"}

NoArg == <<>>
Call(op, set, arg, val) == [op |-> op, set |-> set, arg |-> arg, val |-> val]
\* ret after an operation that returns nothing
NoCall == Call("", "", NoArg, None)

(***************************************************************************)
(* The dom4 collaborator.                                                  *)
(***************************************************************************)
Attached(x) == \E p \in ParentE : x \in Range(childList[p])

RECURSIVE Descendants(_)
Descendants(x) ==
    IF x \in ParentE
      THEN UNION {{childList[x][i]} \cup Descendants(childList[x][i]) : i \in DOMAIN childList[x]}
      ELSE {}

\* parent.append_child(child) for a child not yet in any child list
AppendChild(p, c) ==
    /\ EntityType(c) \in (IF p = RootE THEN ChildOfRootTypes ELSE ChildOfElementTypes)
    /\ ~Attached(c)
    /\ c # p
    /\ p \notin Descendants(c)
    /\ childList' = [childList EXCEPT ![p] = Append(@, c)]
    /\ ret' = NoCall
    /\ UNCHANGED <<attrList, prefixes, preferred, nodesets, appended, walk, visited>>

\* element.set_attribute_value(name, value) creating attribute a on e
SetAttribute(e, a) ==
    /\ \A f \in ElementE : a \notin Range(attrList[f])
    /\ attrList' = [attrList EXCEPT ![e] = Append(@, a)]
    /\ ret' = NoCall
    /\ UNCHANGED <<childList, prefixes, preferred, nodesets, appended, walk, visited>>

\* element.register_prefix(prefix, uri): the prefix now maps to uri
RegisterPrefix(e, q, u) ==
    /\ prefixes' = [prefixes EXCEPT ![e] = {b \in @ : b[1] # q} \cup {<<q, u>>}]
    /\ ret' = NoCall
    /\ UNCHANGED <<childList, attrList, preferred, nodesets, appended, walk, visited>>

\* x.set_preferred_prefix(Some(prefix)) on an element or attribute
SetPreferredPrefix(x, q) ==
    /\ preferred' = [preferred EXCEPT ![x] = Some(q)]
    /\ ret' = NoCall
    /\ UNCHANGED <<childList, attrList, prefixes, nodesets, appended, walk, visited>>

(***************************************************************************)
(* Calls on Node.                                                          *)
(***************************************************************************)
StringValue(x) ==
    /\ ret' = Call("string_value", "", NodeOf(x), Some(string_value(NodeOf(x))))
    /\ UNCHANGED <<childList, attrList, prefixes, preferred, nodesets, appended, walk, visited>>

PrefixedName(x, scan) ==
    /\ ret' = Call("prefixed_name", "", NodeOf(x), prefixed_name(NodeOf(x), scan))
    /\ UNCHANGED <<childList, attrList, prefixes, preferred, nodesets, appended, walk, visited>>

(***************************************************************************)
(* Calls on Nodeset.                                                       *)
(***************************************************************************)
Add(s, x) ==
    /\ nodesets' = [nodesets EXCEPT ![s] = add(@, x)]
    /\ appended' = [appended EXCEPT ![s] = Append(@, <<EntityType(x), x>>)]
    /\ ret' = NoCall
    /\ UNCHANGED <<childList, attrList, prefixes, preferred, walk, visited>>

DocumentOrderFirst(s) ==
    /\ ret' = Call("document_order_first", s, NoArg, document_order_first(nodesets[s]))
    /\ UNCHANGED <<childList, attrList, prefixes, preferred, nodesets, appended, walk, visited>>

\* nodesets[dst].add_nodeset(&nodesets[src]); the borrows make dst # src
AddNodeset(dst, src) ==
    /\ dst # src
    /\ nodesets' = [nodesets EXCEPT ![dst] = add_nodeset(@, nodesets[src])]
    /\ appended' = [appended EXCEPT ![dst] = @ \o appended[src]]
    /\ ret' = Call("add_nodeset", dst, <<src>>, None)
    /\ UNCHANGED <<childList, attrList, prefixes, preferred, walk, visited>>

Size(s) ==
    /\ ret' = Call("size", s, NoArg, Some(size(nodesets[s])))
    /\ UNCHANGED <<childList, attrList, prefixes, preferred, nodesets, appended, walk, visited>>

\* let node_vec: Vec<_> = nodesets[s].iter().collect()
IterCollect(s) ==
    /\ ret' = Call("iter", s, NoArg, Collect(iter(nodesets[s])))
    /\ UNCHANGED <<childList, attrList, prefixes, preferred, nodesets, appended, walk, visited>>

(***************************************************************************)
(* Nodeset::document_order_first, one loop iteration at a time.            *)
(***************************************************************************)
\* the call enters past the `None => return None` of the empty Nodeset and
\* sets up idx, stack and order
WalkBegin(s) ==
    /\ walk.pc = "idle"
    /\ nodesets[s] # <<>>
    /\ walk' = [pc |-> "walking", st |-> WalkInit]
    /\ visited' = <<>>
    /\ ret' = NoCall
    /\ UNCHANGED <<childList, attrList, prefixes, preferred, nodesets, appended>>

\* `while let Some(n) = stack.pop()` with a node on the stack: the loop body
WalkPop ==
    /\ walk.pc = "walking"
    /\ walk.st.stack # <<>>
    /\ walk' = [walk EXCEPT !.st = WalkStep(@)]
    /\ visited' = Append(visited, walk.st.stack[Len(walk.st.stack)])
    /\ UNCHANGED <<childList, attrList, prefixes, preferred, nodesets, appended, ret>>

\* stack.pop() gives None: the loop ends and min_by gives the result
WalkEnd(s) ==
    /\ walk.pc = "walking"
    /\ walk.st.stack = <<>>
    /\ walk' = [walk EXCEPT !.pc = "done"]
    /\ ret' = Call("document_order_first", s, NoArg, min_by(nodesets[s], walk.st.order))
    /\ UNCHANGED <<childList, attrList, prefixes, preferred, nodesets, appended, visited>>

Init ==
    /\ childList = [p \in ParentE |-> <<>>]
    /\ attrList = [e \in ElementE |-> <<>>]
    /\ prefixes = [e \in ElementE |-> {}]
    /\ preferred = [x \in ElementE \cup AttributeE |-> None]
    /\ nodesets = [s \in SetNames |-> new]
    /\ appended = [s \in SetNames |-> <<>>]
    /\ ret = NoCall
    /\ walk = [pc |-> "idle", st |-> WalkInit]
    /\ visited = <<>>

(***************************************************************************)
(* SpecOrder: a document is assembled, nodes are added to one Nodeset and  *)
(* document_order_first is asked of it.                                    *)
(***************************************************************************)
OrderChildren == {"e1", "e2", "c1"}
OrderMembers == {RootE} \cup OrderChildren \cup AttributeE \cup NamespaceE

NextOrder ==
    \/ \E p \in ParentE, c \in OrderChildren : AppendChild(p, c)
    \/ \E e \in ElementE, a \in AttributeE : SetAttribute(e, a)
    \/ \E x \in OrderMembers : Len(nodesets["nodes1"]) < MaxSetLen /\ Add("nodes1", x)
    \/ DocumentOrderFirst("nodes1")

SpecOrder == Init /\ [][NextOrder]_vars

(***************************************************************************)
(* SpecSet: three Nodesets of detached elements are filled by add and      *)
(* united by add_nodeset.                                                  *)
(***************************************************************************)
SetMembers == {"e1", "e2"}
RECURSIVE SumLen(_)
SumLen(S) == IF S = {} THEN 0
             ELSE LET s == CHOOSE s \in S : TRUE
                  IN  Len(nodesets[s]) + SumLen(S \ {s})
TotalLen == SumLen(SetNames)

NextSet ==
    \/ \E s \in SetNames, x \in SetMembers : TotalLen < MaxTotal /\ Add(s, x)
    \/ \E dst \in SetNames, src \in SetNames :
          TotalLen + Len(nodesets[src]) <= MaxTotal /\ AddNodeset(dst, src)
    \/ \E s \in SetNames : Size(s)
    \/ \E s \in SetNames : IterCollect(s)

SpecSet == Init /\ [][NextSet]_vars

(***************************************************************************)
(* SpecMembers: two Nodesets are filled with detached nodes of every kind  *)
(* by add and add_nodeset and read by size and iter.                       *)
(***************************************************************************)
KindMembers == {"r", "e1", "a1", "t1", "c1", "p1"}
MemberSets == {"all_nodes", "nodes1"}

NextMembers ==
    \/ \E s \in MemberSets, x \in KindMembers : TotalLen < MaxMembers /\ Add(s, x)
    \/ \E dst \in MemberSets, src \in MemberSets :
          TotalLen + Len(nodesets[src]) <= MaxMembers /\ AddNodeset(dst, src)
    \/ \E s \in MemberSets : Size(s)
    \/ \E s \in MemberSets : IterCollect(s)

SpecMembers == Init /\ [][NextMembers]_vars

(***************************************************************************)
(* SpecValue: a document with text, comment and processing-instruction     *)
(* nodes is assembled and string_value is asked of its nodes.              *)
(***************************************************************************)
ValueChildren == {"e1", "e2", "t1", "t2", "t3", "c1", "p1"}
ValueAttributes == {"a2"}
ValueMembers == {RootE, "e1", "e2", "t2", "c1", "p1", "p2", "a2", "n1"}

AttachedCount == Cardinality({x \in EntityE : Attached(x)})

NextValue ==
    \/ \E p \in ParentE, c \in ValueChildren :
          AttachedCount < MaxAttached /\ AppendChild(p, c)
    \/ \E a \in ValueAttributes : SetAttribute("e1", a)
    \/ \E x \in ValueMembers : StringValue(x)

SpecValue == Init /\ [][NextValue]_vars

(***************************************************************************)
(* SpecName: attributes are set on elements, prefixes are registered and   *)
(* preferred, and prefixed_name is asked of the nodes.                     *)
(***************************************************************************)
NameMembers == {RootE, "e1", "e2", "a1", "a2", "t1", "c1", "p2", "n1"}
Hinted == {"e1", "a1"}

NextName ==
    \/ \E e \in ElementE, a \in AttributeE : SetAttribute(e, a)
    \/ \E e \in ElementE, q \in Prefixes, u \in Uris : RegisterPrefix(e, q, u)
    \/ \E x \in Hinted, q \in Prefixes : SetPreferredPrefix(x, q)
    \/ \E x \in NameMembers, scan \in ScanOrders : PrefixedName(x, scan)

SpecName == Init /\ [][NextName]_vars

(***************************************************************************)
(* SpecWalk: a document is assembled and nodes are added to a Nodeset;     *)
(* then document_order_first runs on it, one loop iteration per step, the  *)
(* document being left alone while it runs.  SpecWalkFair adds that the    *)
(* call, being synchronous, keeps running until it returns.                *)
(***************************************************************************)
WalkChildren == {"e1", "e2", "c1", "t1"}
WalkMembers == {RootE, "a1"}

NextWalk ==
    \/ \E p \in ParentE, c \in WalkChildren : walk.pc = "idle" /\ AppendChild(p, c)
    \/ \E e \in ElementE, a \in AttributeE : walk.pc = "idle" /\ SetAttribute(e, a)
    \/ \E x \in WalkMembers :
          walk.pc = "idle" /\ Len(nodesets["nodes1"]) < MaxSetLen /\ Add("nodes1", x)
    \/ WalkBegin("nodes1")
    \/ WalkPop
    \/ WalkEnd("nodes1")

SpecWalk == Init /\ [][NextWalk]_vars
SpecWalkFair == SpecWalk /\ WF_vars(WalkPop) /\ WF_vars(WalkEnd("nodes1"))

(***************************************************************************)
(* Reference notions used to state the properties of the document order.   *)
(***************************************************************************)
\* depth-first preorder of the child tree below entity x: x, then the
\* preorder of each child in child-list order
RECURSIVE RefPreorder(_)
RECURSIVE RefPreorderFrom(_, _)
RefPreorder(x) == <<x>> \o (IF x \in ParentE THEN RefPreorderFrom(x, 1) ELSE <<>>)
RefPreorderFrom(x, i) ==
    IF i > Len(childList[x]) THEN <<>>
    ELSE RefPreorder(childList[x][i]) \o RefPreorderFrom(x, i + 1)

InTree(x) == x = RootE \/ x \in Descendants(RootE)
FirstIndex(s, S) == CHOOSE i \in DOMAIN s : s[i] \in S /\ \A j \in 1..(i - 1) : s[j] \notin S
Entities(nodes) == {nodes[i][2] : i \in DOMAIN nodes}
Queried == nodesets["nodes1"]
AfterFirst == ret.op = "document_order_first"

\* C1: for a Nodeset whose members are all attached to the document's tree
\* and are not attributes, document_order_first returns the member that
\* comes first in the depth-first preorder from the root, whatever the
\* order of insertion.
C1_FirstInPreorder ==
    (/\ AfterFirst
     /\ Queried # <<>>
     /\ \A i \in DOMAIN Queried :
            /\ Queried[i][1] \notin {"Attribute", "Namespace"}
            /\ InTree(Queried[i][2]))
    => LET pre == RefPreorder(RootE)
       IN  ret.val = Some(NodeOf(pre[FirstIndex(pre, Entities(Queried))]))

\* the set [later sibling, earlier sibling] was queried and the earlier one returned
C1_Witness ==
    /\ AfterFirst
    /\ Len(Queried) = 2
    /\ \E p \in ParentE : \E i, j \in DOMAIN childList[p] :
          /\ i < j
          /\ Queried = <<NodeOf(childList[p][j]), NodeOf(childList[p][i])>>
          /\ ret.val = Some(NodeOf(childList[p][i]))

\* C2: in the order of the walk every attribute of an element E comes after
\* E and before every node of E's child subtree; a Nodeset holding an
\* attribute of E and a node of E's child subtree never yields the subtree
\* node, and a Nodeset of an attached E and attributes of E yields E.
C2_AttributesAfterElementBeforeChildren ==
    AfterFirst =>
      LET order == Walk(WalkInit).order
      IN  \A e \in ElementE : \A a \in Range(attrList[e]) :
            /\ From(e) \in DOMAIN order =>
                 /\ From(a) \in DOMAIN order
                 /\ order[From(e)] < order[From(a)]
                 /\ \A d \in Descendants(e) :
                        /\ From(d) \in DOMAIN order
                        /\ order[From(a)] < order[From(d)]
            /\ \A d \in Descendants(e) :
                 {From(a), From(d)} \subseteq Range(Queried) => ret.val # Some(From(d))
            /\ (/\ InTree(e)
                /\ {From(e), From(a)} \subseteq Range(Queried)
                /\ Range(Queried) \subseteq {From(e)} \cup {From(b) : b \in Range(attrList[e])})
               => ret.val = Some(From(e))

\* the set [child of E, attribute of E] was queried and the attribute returned
C2_Witness ==
    /\ AfterFirst
    /\ \E e \in ElementE : \E c \in Range(childList[e]) : \E a \in Range(attrList[e]) :
          /\ InTree(e)
          /\ Queried = <<From(c), From(a)>>
          /\ ret.val = Some(From(a))

\* C3: document_order_first returns None exactly for the empty Nodeset and
\* for every non-empty Nodeset of one document (detached members,
\* Namespace nodes and duplicates included) returns Some member of it.
C3_NoneIffEmpty ==
    AfterFirst =>
      /\ ret.val = None <=> Queried = <<>>
      /\ Queried # <<>> => IsSome(ret.val) /\ ret.val[1] \in Range(Queried)

\* C4: the walk indexes the attributes of one element in their stored
\* order, so a Nodeset of two attributes of one element yields the one
\* earlier in the element's attribute list.
C4_AttributesInStoredOrder ==
    AfterFirst =>
      LET order == Walk(WalkInit).order
      IN  \A e \in ElementE : \A i, j \in DOMAIN attrList[e] :
            (/\ i < j
             /\ InTree(e)
             /\ Range(Queried) = {From(attrList[e][i]), From(attrList[e][j])})
            => /\ order[From(attrList[e][i])] < order[From(attrList[e][j])]
               /\ ret.val = Some(From(attrList[e][i]))

\* C5: a.add_nodeset(b) leaves a holding its previous members followed by
\* b's members in b's order, nothing removed or merged (the size is the sum),
\* and leaves b and every other Nodeset as they were; so a Nodeset that
\* equalled the two operands in sequence equals the united one, and uniting
\* three Nodesets gives the same sequence in either grouping.
C5_AddNodesetStep ==
    \A dst \in SetNames, src \in SetNames :
      (ret'.op = "add_nodeset" /\ ret'.set = dst /\ ret'.arg = <<src>>) =>
        /\ nodesets'[dst] = nodesets[dst] \o nodesets[src]
        /\ size(nodesets'[dst]) = size(nodesets[dst]) + size(nodesets[src])
        /\ \A t \in SetNames \ {dst} :
              /\ nodesets'[t] = nodesets[t]
              /\ nodesets[t] = nodesets[dst] \o nodesets[src] => nodesets'[t] = nodesets'[dst]

C5_Associative ==
    LET A == nodesets["all_nodes"]
        B == nodesets["nodes1"]
        C == nodesets["nodes2"]
    IN  add_nodeset(add_nodeset(A, B), C) = add_nodeset(A, add_nodeset(B, C))

\* C5, whole: every step obeys C5_AddNodesetStep and every state C5_Associative
C5_AddNodesetAppends == [][C5_AddNodesetStep]_vars /\ []C5_Associative

\* the test: all_nodes = [e1, e2]; nodes1 = [e1] united with nodes2 = [e2]
\* equals all_nodes
C5_Witness ==
    /\ ret.op = "add_nodeset" /\ ret.set = "nodes1" /\ ret.arg = <<"nodes2">>
    /\ nodesets["all_nodes"] = <<From("e1"), From("e2")>>
    /\ nodesets["nodes2"] = <<From("e2")>>
    /\ nodesets["nodes1"] = nodesets["all_nodes"]

\* C6: a Nodeset holds exactly the nodes appended to it by add and
\* add_nodeset, duplicates included, in the order appended and under the
\* variant of their kind; size() is their number and iter() yields them in
\* that order, every time it is run.
C6_MembersAreTheAppended ==
    /\ \A s \in SetNames : nodesets[s] = appended[s]
    /\ ret.op = "size" => ret.val = Some(Len(appended[ret.set]))
    /\ ret.op = "iter" => ret.val = appended[ret.set]

\* iter() was run on a Nodeset of three members of two kinds, one node
\* twice, the last member being the member of the other Nodeset
C6_Witness ==
    /\ ret.op = "iter" /\ ret.set = "all_nodes"
    /\ Len(ret.val) = 3
    /\ ret.val[1] = ret.val[3]
    /\ ret.val[2][1] # ret.val[1][1]
    /\ nodesets["nodes1"] = <<ret.val[3]>>

\* the texts of the Text entities of a sequence of entities, concatenated
RECURSIVE ConcatTexts(_, _)
ConcatTexts(seq, i) ==
    IF i > Len(seq) THEN ""
    ELSE (IF EntityType(seq[i]) = "Text" THEN text(seq[i]) ELSE "") \o ConcatTexts(seq, i + 1)

\* C7: string_value of a Root or Element node is the texts of all its Text
\* descendants, in document order, concatenated without separators;
\* comments and processing instructions contribute nothing.
C7_ConcatenationOfDescendantTexts ==
    (ret.op = "string_value" /\ ret.arg[1] \in {"Root", "Element"})
    => ret.val = Some(ConcatTexts(RefPreorder(ret.arg[2]), 1))

\* element[text "Presenting: ", element[text "Earth"], text "!"]
C7_Witness ==
    /\ ret.op = "string_value"
    /\ ret.arg = <<"Element", "e1">>
    /\ childList["e1"] = <<"t1", "e2", "t3">>
    /\ childList["e2"] = <<"t2">>
    /\ ret.val = Some("Presenting: Earth!")

\* C8: prefixed_name of an Element or Attribute is "prefix:local" for a
\* prefix bound to the name's namespace URI at the resolution-context
\* element (the element itself, or the attribute's parent), with or
\* without a preferred prefix; it is the bare local name when the name has
\* a namespace URI not bound there or has no namespace URI.
C8_PrefixedNameResolution ==
    (/\ ret.op = "prefixed_name"
     /\ ret.arg[1] \in {"Element", "Attribute"}
     /\ ret.arg[1] = "Attribute" => \E e \in ElementE : ret.arg[2] \in Range(attrList[e]))
    => LET x == ret.arg[2]
           context == IF ret.arg[1] = "Element" THEN x
                      ELSE CHOOSE e \in ElementE : x \in Range(attrList[e])
           uri == name(x).namespace_uri
           bound == IF uri = None THEN {}
                    ELSE {q \in Prefixes : <<q, uri[1]>> \in prefixes[context]}
       IN  IF bound # {}
             THEN \E q \in bound : ret.val = Some(q \o ":" \o name(x).local_part)
             ELSE ret.val = Some(name(x).local_part)

\* element ("uri", "wow") with "prefix" registered for "uri" and preferred
C8_Witness ==
    /\ ret.op = "prefixed_name"
    /\ ret.arg = <<"Element", "e1">>
    /\ <<"prefix", "uri">> \in prefixes["e1"]
    /\ preferred["e1"] = Some("prefix")
    /\ ret.val = Some("prefix:wow")

\* C9: prefixed_name panics on an Attribute without parent element, with
\* or without namespace URI in its name; on every other node it returns:
\* None for Root, Text and Comment, Some for Element, Attribute with
\* parent, ProcessingInstruction and Namespace.
C9_PanicsOnlyOnParentlessAttribute ==
    ret.op = "prefixed_name" =>
      LET parentless == /\ ret.arg[1] = "Attribute"
                        /\ \A e \in ElementE : ret.arg[2] \notin Range(attrList[e])
      IN  /\ parentless => IsPanic(ret.val)
          /\ (~parentless /\ ret.arg[1] \in {"Root", "Text", "Comment"}) => ret.val = None
          /\ (~parentless /\ ret.arg[1] \notin {"Root", "Text", "Comment"}) => IsSome(ret.val)

\* the attribute named "name" (no namespace URI), never set on an element
C9_Witness ==
    /\ ret.op = "prefixed_name"
    /\ ret.arg = <<"Attribute", "a2">>
    /\ name("a2").namespace_uri = None
    /\ \A e \in ElementE : "a2" \notin Range(attrList[e])
    /\ IsPanic(ret.val)

\* C10: string_value of an Attribute is its value, of a
\* ProcessingInstruction its value or "" if it has none, of a Comment and
\* of a Text its text, of a Namespace its URI, wherever the node is
\* attached or not.
C10_LeafStringValue ==
    ret.op = "string_value" =>
      LET x == ret.arg[2]
      IN  /\ ret.arg[1] = "Attribute" => ret.val = Some(value(x))
          /\ ret.arg[1] = "ProcessingInstruction" =>
               ret.val = Some(IF pi_value(x) = None THEN "" ELSE pi_value(x)[1])
          /\ ret.arg[1] \in {"Comment", "Text"} => ret.val = Some(text(x))
          /\ ret.arg[1] = "Namespace" => ret.val = Some(ns_uri(x))
          /\ ret.arg = <<"Attribute", "a2">> => ret.val = Some("Earth")
          /\ ret.arg = <<"ProcessingInstruction", "p1">> => ret.val = Some("")
          /\ ret.arg = <<"ProcessingInstruction", "p2">> => ret.val = Some("world")
          /\ ret.arg = <<"Comment", "c1">> => ret.val = Some("hello world")
          /\ ret.arg = <<"Text", "t2">> => ret.val = Some("Earth")

\* a processing instruction without value, attached below an element
C10_Witness ==
    /\ ret.op = "string_value"
    /\ ret.arg = <<"ProcessingInstruction", "p1">>
    /\ \E e \in ElementE : "p1" \in Range(childList[e])
    /\ ret.val = Some("")

\* the nodes reachable from the root through child lists and through the
\* attribute lists of elements
ReachableEntities ==
    LET tree == {RootE} \cup Descendants(RootE)
    IN  tree \cup UNION {Range(attrList[e]) : e \in tree \cap ElementE}
Reachable == {NodeOf(x) : x \in ReachableEntities}

C11_Running ==
    walk.pc \in {"walking", "done"} =>
      /\ \A i, j \in DOMAIN visited : visited[i] = visited[j] => i = j
      /\ Len(visited) = walk.st.idx
      /\ DOMAIN walk.st.order = Range(visited)
      /\ \A i \in DOMAIN visited : walk.st.order[visited[i]] = i - 1
      /\ Range(visited) \subseteq Reachable
      /\ walk.st.idx + Len(walk.st.stack) <= Cardinality(Reachable)

C11_Finished ==
    walk.pc = "done" =>
      LET order == walk.st.order
      IN  /\ walk.st.stack = <<>>
          /\ DOMAIN order = Reachable
          /\ {order[n] : n \in DOMAIN order} = 0..(Cardinality(Reachable) - 1)
          /\ \A p \in ParentE : NodeOf(p) \in Reachable =>
                \A c \in Range(childList[p]) : order[NodeOf(p)] < order[NodeOf(c)]
          /\ \A e \in ElementE : NodeOf(e) \in Reachable =>
                \A a \in Range(attrList[e]) : order[NodeOf(e)] < order[NodeOf(a)]

C11_Terminates == (walk.pc = "walking") ~> (walk.pc = "done" /\ walk.st.stack = <<>>)

\* C11: the explicit-stack walk of document_order_first terminates with an
\* empty stack; every node reachable from the root through child lists and
\* element attribute lists is popped and indexed exactly once, the indices
\* are 0..N-1 in visitation order, and every node's index is smaller than
\* those of its children and attributes.
C11_WalkIndexesEveryNodeOnce == []C11_Running /\ []C11_Finished /\ C11_Terminates

\* the walk has ended on root[e1[e2, ...]] with an attribute on e1 and one on e2
C11_Witness ==
    /\ walk.pc = "done"
    /\ walk.st.stack = <<>>
    /\ childList[RootE] # <<>> /\ "e2" \in Range(childList["e1"])
    /\ attrList["e1"] # <<>> /\ attrList["e2"] # <<>>
    /\ walk.st.idx = Cardinality(Reachable)
    /\ walk.st.idx >= 5
    /\ Len(visited) = walk.st.idx

====
